---- MODULE Spec2Model ----
(***************************************************************************)
(* Model of src/main.py: the fallback chain of ImprovedFinancialAgent.chat *)
(* (reasoning loop, quality gate, ordered intent rules, knowledge          *)
(* completion), the numeric extractor and the financial calculators.       *)
(*                                                                         *)
(* Text is a sequence of one-character strings, so that substring tests,   *)
(* lower-casing, stripping and the regular expressions of the source are   *)
(* computed character by character.  A number is an exact decimal          *)
(* [m |-> mantissa, e |-> decimal exponent] standing for m * 10^(-e).      *)
(***************************************************************************)
EXTENDS Integers, Sequences, FiniteSets, TLC

VARIABLES calcPrev, calcLast,
          pc, agentApi, message, agentOut, gate, branch, calls, arxivOut,
          llmOut, response, extracted

calcVars == <<calcPrev, calcLast>>

chatVars == <<pc, agentApi, message, agentOut, gate, branch, calls, arxivOut,
              llmOut, response, extracted>>

vars == <<calcPrev, calcLast, pc, agentApi, message, agentOut, gate, branch,
          calls, arxivOut, llmOut, response, extracted>>

-----------------------------------------------------------------------------
(* Characters and text                                                     *)

\* the letters str.lower() changes, among the characters of Latin-1
UpperChars == <<"A", "B", "C", "D", "E", "F", "G", "H", "I", "J", "K", "L", "M",
                "N", "O", "P", "Q", "R", "S", "T", "U", "V", "W", "X", "Y", "Z",
                "À", "Á", "Â", "Ã", "Ä", "Å", "Æ", "Ç", "È", "É", "Ê", "Ë", "Ì",
                "Í", "Î", "Ï", "Ð", "Ñ", "Ò", "Ó", "Ô", "Õ", "Ö", "Ø", "Ù", "Ú",
                "Û", "Ü", "Ý", "Þ">>

\* what str.lower() makes of them, in the same order
LowerChars == <<"a", "b", "c", "d", "e", "f", "g", "h", "i", "j", "k", "l", "m",
                "n", "o", "p", "q", "r", "s", "t", "u", "v", "w", "x", "y", "z",
                "à", "á", "â", "ã", "ä", "å", "æ", "ç", "è", "é", "ê", "ë", "ì",
                "í", "î", "ï", "ð", "ñ", "ò", "ó", "ô", "õ", "ö", "ø", "ù", "ú",
                "û", "ü", "ý", "þ">>

LowerTable ==
    [c \in {UpperChars[i] : i \in DOMAIN UpperChars} |->
        LowerChars[CHOOSE i \in DOMAIN UpperChars : UpperChars[i] = c]]

\* str.lower() on one character
LowerChar(c) == IF c \in DOMAIN LowerTable THEN LowerTable[c] ELSE c

\* str.lower()
Lower(s) == [i \in 1..Len(s) |-> LowerChar(s[i])]

\* the characters of Latin-1 matched by \s and removed by str.strip():
\* space, tab, newline, carriage return, form feed, vertical tab, the
\* separators 1C to 1F, next line (85) and the no-break space (A0)
IsSpace(c) ==
    c \in {" ", "\t", "\n", "\r", "\f", "", "", "", "", "", "", " "}

\* the characters matched by \d
IsDigit(c) == c \in {"0", "1", "2", "3", "4", "5", "6", "7", "8", "9"}

\* the characters matched by [\d.,]
IsNumChar(c) == IsDigit(c) \/ c = "." \/ c = ","

\* str.strip()
Strip(s) ==
    IF \A i \in 1..Len(s) : IsSpace(s[i]) THEN <<>>
    ELSE LET a == CHOOSE i \in 1..Len(s) :
                      ~IsSpace(s[i]) /\ \A k \in 1..(i-1) : IsSpace(s[k])
             b == CHOOSE j \in 1..Len(s) :
                      ~IsSpace(s[j]) /\ \A k \in (j+1)..Len(s) : IsSpace(s[k])
         IN  SubSeq(s, a, b)

\* sub in s
Contains(sub, s) ==
    \E t \in {s} :
        \E i \in 0..(Len(t) - Len(sub)) : SubSeq(t, i + 1, i + Len(sub)) = sub

\* s.startswith(sub) from position i (1-based)
StartsAt(sub, s, i) ==
    i + Len(sub) - 1 <= Len(s) /\ SubSeq(s, i, i + Len(sub) - 1) = sub

\* str.replace(c, '') for a single character c
RemoveChar(s, c) == SelectSeq(s, LAMBDA x : x # c)

\* str.replace(c, d) for single characters c and d
ReplaceChar(s, c, d) == [i \in 1..Len(s) |-> IF s[i] = c THEN d ELSE s[i]]

\* the index after the whitespace run that starts at i (regex \s*)
SkipSpaces(s, i) ==
    CHOOSE k \in i..(Len(s) + 1) :
        /\ \A j \in i..(k-1) : IsSpace(s[j])
        /\ (k = Len(s) + 1 \/ ~IsSpace(s[k]))

-----------------------------------------------------------------------------
(* Exact decimals standing for the floats of the source                    *)

RECURSIVE Pow10(_)
Pow10(n) == IF n <= 0 THEN 1 ELSE 10 * Pow10(n - 1)

RECURSIVE DecNorm(_)
\* the same number with no trailing zero in the mantissa
DecNorm(d) ==
    IF d.m = 0 THEN [m |-> 0, e |-> 0]
    ELSE IF d.m % 10 = 0 THEN DecNorm([m |-> d.m \div 10, e |-> d.e - 1])
    ELSE d

Dec(m, e) == DecNorm([m |-> m, e |-> e])

MaxOf(a, b) == IF a >= b THEN a ELSE b

\* mantissa of d at exponent E >= d.e
Scaled(d, E) == d.m * Pow10(E - d.e)

DecAdd(a, b) ==
    LET E == MaxOf(a.e, b.e) IN Dec(Scaled(a, E) + Scaled(b, E), E)

DecSub(a, b) ==
    LET E == MaxOf(a.e, b.e) IN Dec(Scaled(a, E) - Scaled(b, E), E)

DecMul(a, b) == Dec(a.m * b.m, a.e + b.e)

\* floor(d): the whole part of a decimal
DecFloor(d) == IF d.e <= 0 THEN d.m * Pow10(0 - d.e) ELSE d.m \div Pow10(d.e)

\* (d - floor(d)) * 10^E, for E >= d.e
DecFrac(d, E) ==
    IF d.e <= 0 THEN 0 ELSE (d.m % Pow10(d.e)) * Pow10(E - d.e)

\* a <= b, compared by whole part and then by fraction
DecLE(a, b) ==
    LET E == MaxOf(a.e, b.e)
    IN  \/ DecFloor(a) < DecFloor(b)
        \/ DecFloor(a) = DecFloor(b) /\ DecFrac(a, E) <= DecFrac(b, E)

\* a - b kept as whole part w and fraction f * 10^-e, 0 <= f < 10^e
DecSubWide(a, b) ==
    LET E == MaxOf(MaxOf(a.e, b.e), 0)
        w == DecFloor(a) - DecFloor(b)
        f == DecFrac(a, E) - DecFrac(b, E)
    IN  IF f < 0 THEN [w |-> w - 1, f |-> f + Pow10(E), e |-> E]
        ELSE [w |-> w, f |-> f, e |-> E]

DecZero == [m |-> 0, e |-> 0]

\* x / 100
DecDiv100(a) == Dec(a.m, a.e + 2)

\* the largest whole number the decimals hold
MaxInt == 2147483647

\* a * b is held exactly, for a >= 0 and b >= 0
FitsMul(a, b) == a = 0 \/ b <= MaxInt \div a

\* d has no fraction
IsWhole(d) == d.e <= 0

RECURSIVE MantPow(_, _, _)
\* acc * m^n, or -1 when a product on the way is not held exactly (m >= 2)
MantPow(acc, m, n) ==
    IF n = 0 THEN acc
    ELSE IF ~FitsMul(acc, m) THEN 0 - 1
    ELSE MantPow(acc * m, m, n - 1)

MaxExp == 9

\* the power of ten of a ** n is one the decimals hold
ExpFits(a, n) ==
    \/ a.e = 0
    \/ a.e > 0 /\ n <= MaxExp \div a.e
    \/ a.e < 0 /\ n <= MaxExp \div (0 - a.e)

\* a ** n is held exactly, for a > 0 and a whole number n >= 0
PowExact(a, n) ==
    IF a.m = 1 THEN ExpFits(a, n)
    ELSE ExpFits(a, n) /\ n <= 31 /\ MantPow(1, a.m, n) > 0

\* a ** n for a whole number n >= 0, when PowExact(a, n)
DecPow(a, n) ==
    IF a.m = 1 THEN Dec(1, a.e * n) ELSE Dec(MantPow(1, a.m, n), a.e * n)

\* a * b is held exactly, for a > 0 and b > 0
MulExact(a, b) ==
    FitsMul(a.m, b.m) /\ a.e + b.e <= MaxExp /\ 0 - (a.e + b.e) <= MaxExp

\* a - b and a + b are held exactly, for a > 0 and b > 0
SubExact(a, b) ==
    LET E == MaxOf(a.e, b.e)
    IN  /\ E - a.e <= MaxExp /\ E - b.e <= MaxExp
        /\ FitsMul(a.m, Pow10(E - a.e))
        /\ FitsMul(b.m, Pow10(E - b.e))
        /\ a.m * Pow10(E - a.e) <= MaxInt - b.m * Pow10(E - b.e)

-----------------------------------------------------------------------------
(* Bounds of a float that the decimals do not hold exactly: m * 10^x with  *)
(* a mantissa of eight digits, rounded down for a lower bound and up for   *)
(* an upper bound                                                          *)

Flo(m, x) == [m |-> m, x |-> x]

FloZero == Flo(0, 0)

RECURSIVE FloRound(_, _, _)
\* the eight-digit number next to m * 10^x: the largest one <= it, and with
\* up the smallest one >= it
FloRound(m, x, up) ==
    IF m <= 0 THEN FloZero
    ELSE IF m >= Pow10(7) /\ m < Pow10(8) THEN Flo(m, x)
    ELSE FloRound(IF m < Pow10(7) THEN m * 10
                  ELSE IF up THEN ((m - 1) \div 10) + 1 ELSE m \div 10,
                  IF m < Pow10(7) THEN x - 1 ELSE x + 1,
                  up)

\* the product top * 10^8 + mid * 10^4 + low of two eight-digit mantissas:
\* its first eight digits m, their place x, and whether the digits left out
\* are all 0
MantDe(top, mid, low) ==
    IF top >= Pow10(7)
    THEN [m |-> top, x |-> 8, exact |-> mid = 0 /\ low = 0]
    ELSE [m |-> top * 10 + (mid \div 1000), x |-> 7,
          exact |-> mid % 1000 = 0 /\ low = 0]

\* the product of the mantissas ah * 10^4 + al and bh * 10^4 + bl
MantHalves(ah, al, bh, bl) ==
    MantDe(ah * bh + ((ah * bl + al * bh + ((al * bl) \div Pow10(4))) \div Pow10(4)),
           (ah * bl + al * bh + ((al * bl) \div Pow10(4))) % Pow10(4),
           (al * bl) % Pow10(4))

\* the product of two eight-digit mantissas, from their halves of four digits
MantMul(a, b) ==
    MantHalves(a \div Pow10(4), a % Pow10(4), b \div Pow10(4), b % Pow10(4))

\* the eight-digit number next to the product p * 10^x
FloDe(p, x, up) ==
    IF up /\ ~p.exact THEN FloRound(p.m + 1, x + p.x, TRUE) ELSE Flo(p.m, x + p.x)

\* a * b rounded down, and with up rounded up
FloMul(a, b, up) ==
    IF a.m = 0 \/ b.m = 0 THEN FloZero
    ELSE FloDe(MantMul(a.m, b.m), a.x + b.x, up)

\* a bound of 1 + f for f > 0: the lower one for up = FALSE, the upper one
\* for TRUE
FloMaisUm(f, up) ==
    IF f.x > 0 THEN IF up THEN FloRound(f.m + 1, f.x, TRUE) ELSE f
    ELSE IF f.x >= 0 - 7 THEN FloRound(f.m + Pow10(0 - f.x), f.x, up)
    ELSE Flo(Pow10(7) + (IF 0 - 7 - f.x > 8 THEN 0 ELSE f.m \div Pow10(0 - 7 - f.x))
                      + (IF up THEN 1 ELSE 0),
             0 - 7)

\* lower and upper bound of a number
Entre(lo, hi) == [lo |-> lo, hi |-> hi]

\* bounds of the decimal d > 0
EntreDec(d) == Entre(FloRound(d.m, 0 - d.e, FALSE), FloRound(d.m, 0 - d.e, TRUE))

\* the largest float is 1.7976931348623157e308
FloatMaxMant == 17976931

FloatMaxExp == 301

\* f is above the largest float
Excede(f) == f.x > FloatMaxExp \/ (f.x = FloatMaxExp /\ f.m > FloatMaxMant)

\* stands for float('inf') and for every number above the largest float
FloInf == Flo(Pow10(7), FloatMaxExp + 1)

\* with cap, a float product above the largest float is inf
FloCap(f, cap) == IF cap /\ Excede(f) THEN FloInf ELSE f

\* bounds of a * b, for a > 0 and b > 0
EntreMul(a, b, cap) ==
    Entre(FloCap(FloMul(a.lo, b.lo, FALSE), cap), FloCap(FloMul(a.hi, b.hi, TRUE), cap))

EntreUm == Entre(Flo(Pow10(7), 0 - 7), Flo(Pow10(7), 0 - 7))

RECURSIVE EntrePow(_, _, _)
\* bounds of a ** n for a >= 1 and a whole number n >= 0, by repeated
\* squaring; with cap, a bound above the largest float is FloInf
EntrePow(a, n, cap) ==
    IF n = 0 THEN EntreUm
    ELSE CHOOSE r \in {EntreMul(IF n % 2 = 0 THEN h ELSE a, h, cap) :
                         h \in {EntrePow(a, IF n % 2 = 0 THEN n \div 2 ELSE n - 1,
                                         cap)}} : TRUE

FloLE(a, b) ==
    \/ a.m = 0
    \/ b.m # 0 /\ (a.x < b.x \/ (a.x = b.x /\ a.m <= b.m))

\* a bound of a - b: the lower one for up = FALSE, the upper one for TRUE;
\* inf - b is inf
FloSub(a, b, up) ==
    IF a = FloInf THEN FloInf
    ELSE IF FloLE(a, b) THEN FloZero
    ELSE IF b.m = 0 THEN a
    ELSE IF a.x - b.x > 8 THEN FloRound(a.m - (IF up THEN 0 ELSE 1), a.x, up)
    ELSE IF up \/ b.m % Pow10(a.x - b.x) = 0
    THEN FloRound(a.m - (b.m \div Pow10(a.x - b.x)), a.x, up)
    ELSE FloRound(a.m - (b.m \div Pow10(a.x - b.x)) - 1, a.x, up)

\* the eight-digit numbers from the decade x0 on, in ascending order: the
\* number at place i, and the place of f
FloAt(x0, i) ==
    Flo((i % (9 * Pow10(7))) + Pow10(7), x0 + (i \div (9 * Pow10(7))))

FloIdx(x0, f) == (f.x - x0) * (9 * Pow10(7)) + (f.m - Pow10(7))

\* the number y at place i is a bound of the root of degree den of t:
\* y ** den <= t, and with up t <= y ** den
Cabe(x0, i, den, t, up) ==
    CHOOSE r \in {IF up THEN FloLE(t, q.lo) ELSE FloLE(q.hi, t) :
                    q \in {EntrePow(Entre(FloAt(x0, i), FloAt(x0, i)), den, FALSE)}} : TRUE

\* the place looked at between a and b
Meio(a, b, up) ==
    IF a >= b THEN a
    ELSE IF up THEN a + ((b - a) \div 2) ELSE a + ((b - a + 1) \div 2)

RECURSIVE Raiz(_, _, _, _, _, _)
\* by bisection, the last place i in a..b whose number is a lower bound of
\* the root of degree den of t and, with up, the first one whose number is
\* an upper bound; -1 when the place found is no bound
Raiz(x0, a, b, den, t, up) ==
    CHOOSE r \in
      {IF a >= b THEN (IF ok THEN a ELSE 0 - 1)
       ELSE Raiz(x0,
                 IF up = ok THEN a ELSE IF up THEN Meio(a, b, up) + 1 ELSE Meio(a, b, up),
                 IF up # ok THEN b ELSE IF up THEN Meio(a, b, up) ELSE Meio(a, b, up) - 1,
                 den, t, up) :
       ok \in {Cabe(x0, Meio(a, b, up), den, t, up)}} : TRUE

\* the number at place i, and f when there is no place
FloOu(x0, i, f) == IF i < 0 THEN f ELSE FloAt(x0, i)

\* bounds of the root of degree den of a number within the bounds t, when it
\* lies between below and above
RaizEntre(below, above, den, t) ==
    Entre(FloOu(below.x,
                Raiz(below.x, FloIdx(below.x, below), FloIdx(below.x, above),
                     den, t.lo, FALSE),
                below),
          FloOu(below.x,
                Raiz(below.x, FloIdx(below.x, below), FloIdx(below.x, above),
                     den, t.hi, TRUE),
                above))

\* bounds of a ** p for a decimal p with a fraction, from the bounds below
\* and above of a ** floor(p) and a ** (floor(p) + 1): a ** p is the root of
\* degree 10^p.e of a ** p.m, which is looked for between the two where the
\* powers on the way are within the whole numbers
EntreFrac(a, p, below, above) ==
    IF \/ Excede(below)
       \/ p.e > 3
       \/ ~FitsMul(a.hi.x + 9, p.m)
       \/ ~FitsMul(above.x + 9, Pow10(p.e))
    THEN Entre(below, above)
    ELSE CHOOSE r \in {RaizEntre(below, above, Pow10(p.e), t) :
                         t \in {EntrePow(a, p.m, FALSE)}} : TRUE

\* bounds of a ** p for the bounds a of a number >= 1 and a decimal p > 0
EntrePowDec(a, p) ==
    CHOOSE r \in {IF IsWhole(p) THEN h
                  ELSE EntreFrac(a, p, h.lo, FloCap(FloMul(h.hi, a.hi, TRUE), TRUE)) :
                    h \in {EntrePow(a, DecFloor(p), TRUE)}} : TRUE

DigitValue(c) ==
    CASE c = "0" -> 0 [] c = "1" -> 1 [] c = "2" -> 2 [] c = "3" -> 3
      [] c = "4" -> 4 [] c = "5" -> 5 [] c = "6" -> 6 [] c = "7" -> 7
      [] c = "8" -> 8 [] c = "9" -> 9

RECURSIVE DigitsToInt(_)
DigitsToInt(ds) ==
    IF ds = <<>> THEN 0
    ELSE 10 * DigitsToInt(SubSeq(ds, 1, Len(ds) - 1)) + DigitValue(ds[Len(ds)])

\* float(s) accepts a text of digits and dots iff it has at least one digit
\* and at most one dot; otherwise it raises ValueError
FloatOk(s) ==
    /\ \E i \in 1..Len(s) : IsDigit(s[i])
    /\ Cardinality({i \in 1..Len(s) : s[i] = "."}) <= 1

\* float(s) for a text accepted by FloatOk
FloatOf(s) ==
    LET ds == RemoveChar(s, ".")
        frac == IF \E i \in 1..Len(s) : s[i] = "."
                THEN Len(s) - (CHOOSE i \in 1..Len(s) : s[i] = ".")
                ELSE 0
    IN  Dec(DigitsToInt(ds), frac)

-----------------------------------------------------------------------------
(* Results: what a call returns (a text or None) or the exception it raises *)

NoVals == [k \in {} |-> DecZero]

\* a returned text made by a template of the source, with the values put in it
Str(tag, vals) ==
    [kind |-> "str", tag |-> tag, text |-> <<>>, vals |-> vals,
     exception |-> FALSE]

\* a returned text that is (or echoes) free text
Txt(tag, text) ==
    [kind |-> "str", tag |-> tag, text |-> text, vals |-> NoVals,
     exception |-> FALSE]

\* return None
NoneResult ==
    [kind |-> "none", tag |-> "None", text |-> <<>>, vals |-> NoVals,
     exception |-> FALSE]

\* an exception e of class tag leaves the call; text is str(e) and exception
\* is isinstance(e, Exception)
RaisedDe(tag, text, exception) ==
    [kind |-> "raise", tag |-> tag, text |-> text, vals |-> NoVals,
     exception |-> exception]

\* the builtin exception classes, and the CancelledError of asyncio, that are
\* not subclasses of Exception
BaseOnly == {"BaseException", "BaseExceptionGroup", "GeneratorExit",
             "KeyboardInterrupt", "SystemExit", "CancelledError"}

\* an exception of the builtin class tag, or of a class tag that derives from
\* Exception; a class of a library that derives from BaseException only is
\* given by RaisedDe
RaisedMsg(tag, text) == RaisedDe(tag, text, tag \notin BaseOnly)

\* an exception with an empty message
Raised(tag) == RaisedMsg(tag, <<>>)

\* 'except Exception' catches what r is
Caught(r) == r.kind = "raise" /\ r.exception

\* float(s) raises
ValueErrorOf(s) ==
    RaisedMsg("ValueError",
              <<"c", "o", "u", "l", "d", " ", "n", "o", "t", " ", "c", "o", "n", "v", "e", "r", "t", " ", "s", "t", "r", "i", "n", "g", " ", "t", "o", " ", "f", "l", "o", "a", "t", ":", " ", "'">> \o s \o <<"'">>)

-----------------------------------------------------------------------------
(* extrair_valores_numericos                                               *)

MinOf(S) == CHOOSE x \in S : \A y \in S : x <= y

\* c is in the character class cls: "num" is [\d.,], "digit" is \d
InClass(c, cls) == IF cls = "num" THEN IsNumChar(c) ELSE IsDigit(c)

\* the last index of the maximal run of characters of cls that holds i
RunEnd(s, i, cls) ==
    CHOOSE j \in i..Len(s) :
        /\ \A k \in i..j : InClass(s[k], cls)
        /\ (j = Len(s) \/ ~InClass(s[j + 1], cls))

\* the first indexes of the maximal runs of characters of cls
RunStarts(s, cls) ==
    {i \in 1..Len(s) : InClass(s[i], cls) /\ (i = 1 \/ ~InClass(s[i - 1], cls))}

\* re.findall(r'R?\$?\s*([\d.,]+)', texto): the groups are the maximal runs
\* of [\d.,], in order; this is where the first one starts (0: no match)
MonetarioStart(texto) ==
    IF RunStarts(texto, "num") = {} THEN 0
    ELSE MinOf(RunStarts(texto, "num"))

\* re.findall(r'[\d.,]+', message)[0], the same first run
PrimeiroNumero(texto) ==
    LET i == MonetarioStart(texto)
    IN  IF i = 0 THEN <<>> ELSE SubSeq(texto, i, RunEnd(texto, i, "num"))

\* re.findall(r'([\d.,]+)\s*%', texto): the runs of [\d.,] that optional
\* whitespace and a '%' follow
PercentStarts(texto) ==
    {i \in RunStarts(texto, "num") :
        LET k == SkipSpaces(texto, RunEnd(texto, i, "num") + 1)
        IN  k <= Len(texto) /\ texto[k] = "%"}

PrimeiroPercentual(texto) ==
    LET i == MinOf(PercentStarts(texto))
    IN  SubSeq(texto, i, RunEnd(texto, i, "num"))

UnitWords == { <<"a", "n", "o">>, <<"m", "e", "s", "e">>, <<"d", "i", "a">> }

\* re.findall(r'(\d+)\s*(?:anos?|meses?|dias?)', texto, re.IGNORECASE): the
\* runs of digits that optional whitespace and a unit word follow
PeriodoStarts(texto) ==
    {i \in RunStarts(texto, "digit") :
        LET k == SkipSpaces(texto, RunEnd(texto, i, "digit") + 1)
        IN  \E u \in UnitWords : StartsAt(u, Lower(texto), k)}

PrimeiroPeriodo(texto) ==
    LET i == MinOf(PeriodoStarts(texto))
    IN  SubSeq(texto, i, RunEnd(texto, i, "digit"))

\* valores_monetarios[0].replace('.', '').replace(',', '.')
NormalizaMonetario(tok) == ReplaceChar(RemoveChar(tok, "."), ",", ".")

\* percentuais[0].replace(',', '.')
NormalizaPercentual(tok) == ReplaceChar(tok, ",", ".")

extrair_valores_numericos(texto) ==
    LET mon == NormalizaMonetario(PrimeiroNumero(texto))
        hasMon == MonetarioStart(texto) # 0
        hasPer == PercentStarts(texto) # {}
        per == NormalizaPercentual(PrimeiroPercentual(texto))
        hasPrd == PeriodoStarts(texto) # {}
        v1 == IF hasMon
              THEN ("principal" :> FloatOf(mon)) @@ ("valor" :> FloatOf(mon))
              ELSE NoVals
        v2 == IF hasPer
              THEN ("taxa" :> FloatOf(per)) @@ ("percentual" :> FloatOf(per))
              ELSE NoVals
        v3 == IF hasPrd
              THEN ("periodo" :> FloatOf(PrimeiroPeriodo(texto)))
              ELSE NoVals
    IN  IF hasMon /\ ~FloatOk(mon) THEN ValueErrorOf(mon)
        ELSE IF hasPer /\ ~FloatOk(per) THEN ValueErrorOf(per)
        ELSE [kind |-> "ok", tag |-> "valores", text |-> <<>>,
              vals |-> v1 @@ v2 @@ v3, exception |-> FALSE]

-----------------------------------------------------------------------------
(* Calculators                                                             *)

Faixa(limite, aliquota, deducao, nome) ==
    [inf |-> FALSE, limite |-> limite, aliquota |-> aliquota,
     deducao |-> deducao, nome |-> nome]

FaixaInf(aliquota, deducao, nome) ==
    [inf |-> TRUE, limite |-> DecZero, aliquota |-> aliquota,
     deducao |-> deducao, nome |-> nome]

AnoTabela == 2024

\* faixas, year 2024
Faixas2024 ==
    << Faixa(Dec(2855970, 2), Dec(0, 0), Dec(0, 0), "Isento"),
       Faixa(Dec(4225325, 2), Dec(75, 3), Dec(214198, 2), "7,5%"),
       Faixa(Dec(5671756, 2), Dec(15, 2), Dec(530490, 2), "15%"),
       Faixa(Dec(7441484, 2), Dec(225, 3), Dec(975612, 2), "22,5%"),
       FaixaInf(Dec(275, 3), Dec(1406751, 2), "27,5%") >>

\* faixas, any other year
FaixasOutros ==
    << Faixa(Dec(28000, 0), Dec(0, 0), Dec(0, 0), "Isento"),
       Faixa(Dec(42000, 0), Dec(75, 3), Dec(2100, 0), "7,5%"),
       Faixa(Dec(56000, 0), Dec(15, 2), Dec(5300, 0), "15%"),
       Faixa(Dec(74000, 0), Dec(225, 3), Dec(9700, 0), "22,5%"),
       FaixaInf(Dec(275, 3), Dec(14000, 0), "27,5%") >>

\* NaFaixa with rendimento < limite
NaFaixa_strict(rendimento, f) ==
    f.inf \/ (DecLE(rendimento, f.limite) /\ rendimento # f.limite)

\* line 144: rendimento <= limite (float('inf') bounds every income)
NaFaixa(rendimento, f) == f.inf \/ DecLE(rendimento, f.limite)

\* a value that is not a number: a text
NaoNumerico == [texto |-> <<"a", "b", "c">>]

IsNum(x) == "m" \in DOMAIN x

\* a comparison of a text with 0 raises
TypeErrorOf(op) ==
    RaisedMsg("TypeError",
              <<"'">> \o op
                  \o <<"'", " ", "n", "o", "t", " ", "s", "u", "p", "p", "o", "r", "t", "e", "d", " ", "b", "e", "t", "w", "e", "e", "n", " ", "i", "n", "s", "t", "a", "n", "c", "e", "s", " ", "o", "f", " ", "'", "s", "t", "r", "'", " ", "a", "n", "d", " ", "'", "i", "n", "t", "'">>)

\* lines 121-166: the body of the try
imposto_renda_corpo(rendimento, ano) ==
    LET faixas == IF ano = AnoTabela THEN Faixas2024 ELSE FaixasOutros
        fits == {i \in DOMAIN faixas : NaFaixa(rendimento, faixas[i])}
    IN  IF ~IsNum(rendimento) THEN TypeErrorOf(<<"<">>)
        ELSE IF ~DecLE(DecZero, rendimento) THEN Str("ir_negativo", NoVals)
        ELSE IF fits = {} THEN NoneResult
        ELSE LET f == faixas[MinOf(fits)]
                 imposto_bruto == DecMul(rendimento, f.aliquota)
                 liquido == DecSub(imposto_bruto, f.deducao)
                 imposto_devido == IF DecLE(liquido, DecZero) THEN DecZero
                                   ELSE liquido
             IN  Str("ir_relatorio",
                     [ano |-> ano, rendimento |-> rendimento, faixa |-> f.nome,
                      aliquota |-> f.aliquota, deducao |-> f.deducao,
                      imposto_devido |-> imposto_devido,
                      renda_liquida |-> DecSubWide(rendimento, imposto_devido),
                      isento |-> (imposto_devido = DecZero),
                      aliquota_efetiva |-> (imposto_devido # DecZero)])

\* the handlers of lines 168 and 235: an Exception raised by the body of the
\* try comes back as a text that holds its message
Tratado(r, tag) == IF Caught(r) THEN Txt(tag, r.text) ELSE r

\* lines 118-169: line 168 turns an Exception into a returned text
imposto_renda_melhorado(rendimento, ano) ==
    Tratado(imposto_renda_corpo(rendimento, ano), "ir_erro")

\* NaoPositivo with x < 0
NaoPositivo_estrito(x) == ~DecLE(DecZero, x)

\* lines 178 and 197: x <= 0
NaoPositivo(x) == DecLE(x, DecZero)

\* kwargs.get(k, 0)
KwGet(kwargs, k) == IF k \in DOMAIN kwargs THEN kwargs[k] ELSE DecZero

\* a tipo that is not a text: None
TipoNone == <<"<None>">>

\* a text divided by a number, and a text multiplied by a float, raise
DivErro ==
    RaisedMsg("TypeError", <<"u", "n", "s", "u", "p", "p", "o", "r", "t", "e", "d", " ", "o", "p", "e", "r", "a", "n", "d", " ", "t", "y", "p", "e", "(", "s", ")", " ", "f", "o", "r", " ", "/", ":", " ", "'", "s", "t", "r", "'", " ", "a", "n", "d", " ", "'", "i", "n", "t", "'">>)

MulErro ==
    RaisedMsg("TypeError", <<"c", "a", "n", "'", "t", " ", "m", "u", "l", "t", "i", "p", "l", "y", " ", "s", "e", "q", "u", "e", "n", "c", "e", " ", "b", "y", " ", "n", "o", "n", "-", "i", "n", "t", " ", "o", "f", " ", "t", "y", "p", "e", " ", "'", "f", "l", "o", "a", "t", "'">>)

\* line 200 raises when the float power is above the largest float
PowErro == RaisedMsg("OverflowError", <<"(", "3", "4", ",", " ", "'", "N", "u", "m", "e", "r", "i", "c", "a", "l", " ", "r", "e", "s", "u", "l", "t", " ", "o", "u", "t", " ", "o", "f", " ", "r", "a", "n", "g", "e", "'", ")">>)

\* lines 201-212 with bounds p of the principal and m of the montante
JurosEntre(principal, taxa, periodo, p, m) ==
    Str("juros_compostos_relatorio",
        [principal |-> principal, taxa |-> taxa, periodo |-> periodo,
         montante_min |-> m.lo, montante_max |-> m.hi,
         juros_min |-> FloSub(m.lo, p.hi, FALSE),
         juros_max |-> FloSub(m.hi, p.lo, TRUE)])

\* lines 200-212, for principal > 0, taxa > 0 and periodo > 0: the exact
\* amounts where the decimals hold them, else bounds of the floats
JurosCompostos(principal, taxa, periodo) ==
    LET base == DecAdd(Dec(1, 0), taxa)
        n == DecFloor(periodo)
        exato == /\ IsWhole(periodo)
                 /\ SubExact(Dec(1, 0), taxa)
                 /\ PowExact(base, n)
                 /\ MulExact(principal, DecPow(base, n))
                 /\ SubExact(DecMul(principal, DecPow(base, n)), principal)
    IN  IF exato
        THEN LET montante == DecMul(principal, DecPow(base, n))
             IN  Str("juros_compostos_relatorio",
                     [principal |-> principal, taxa |-> taxa,
                      periodo |-> periodo, montante |-> montante,
                      juros |-> DecSub(montante, principal)])
        ELSE CHOOSE r \in
               {IF Excede(pot.lo) THEN PowErro
                ELSE IF Excede(pot.hi)
                THEN Str("juros_compostos_relatorio_ou_erro", NoVals)
                ELSE JurosEntre(principal, taxa, periodo, EntreDec(principal),
                                EntreMul(EntreDec(principal), pot, TRUE)) :
                pot \in {EntrePowDec(b, periodo) :
                           b \in {Entre(FloMaisUm(EntreDec(taxa).lo, FALSE),
                                        FloMaisUm(EntreDec(taxa).hi, TRUE))}}} : TRUE

\* lines 174-233: the body of the try
calculadora_corpo(tipo, kwargs) ==
    IF tipo = TipoNone
    THEN RaisedMsg("AttributeError",
                   <<"'", "N", "o", "n", "e", "T", "y", "p", "e", "'", " ", "o", "b", "j", "e", "c", "t", " ", "h", "a", "s", " ", "n", "o", " ", "a", "t", "t", "r", "i", "b", "u", "t", "e", " ", "'", "l", "o", "w", "e", "r", "'">>)
    ELSE IF Lower(tipo) = <<"p", "o", "r", "c", "e", "n", "t", "a", "g", "e", "m">>
    THEN LET valor == KwGet(kwargs, "valor")
             percentual == KwGet(kwargs, "percentual")
         IN  IF ~IsNum(valor) THEN TypeErrorOf(<<"<", "=">>)
             ELSE IF NaoPositivo(valor)
             THEN Str("porcentagem_rejeitada", NoVals)
             ELSE IF ~IsNum(percentual) THEN TypeErrorOf(<<"<", "=">>)
             ELSE IF NaoPositivo(percentual)
             THEN Str("porcentagem_rejeitada", NoVals)
             ELSE Str("porcentagem_relatorio",
                      [valor |-> valor, percentual |-> percentual,
                       resultado |-> DecMul(valor, DecDiv100(percentual))])
    ELSE IF Lower(tipo) = <<"j", "u", "r", "o", "s", "_", "c", "o", "m", "p", "o", "s", "t", "o", "s">>
    THEN LET principal == KwGet(kwargs, "principal")
             periodo == KwGet(kwargs, "periodo")
         IN  IF ~IsNum(KwGet(kwargs, "taxa")) THEN DivErro
             ELSE IF ~IsNum(principal) THEN TypeErrorOf(<<"<", "=">>)
             ELSE IF \/ NaoPositivo(principal)
                     \/ NaoPositivo(DecDiv100(KwGet(kwargs, "taxa")))
             THEN Str("juros_compostos_rejeitado", NoVals)
             ELSE IF ~IsNum(periodo) THEN TypeErrorOf(<<"<", "=">>)
             ELSE IF NaoPositivo(periodo)
             THEN Str("juros_compostos_rejeitado", NoVals)
             ELSE JurosCompostos(principal, DecDiv100(KwGet(kwargs, "taxa")),
                                 periodo)
    ELSE IF Lower(tipo) = <<"j", "u", "r", "o", "s", "_", "s", "i", "m", "p", "l", "e", "s">>
    THEN LET principal == KwGet(kwargs, "principal")
             periodo == KwGet(kwargs, "periodo")
         IN  IF ~IsNum(KwGet(kwargs, "taxa")) THEN DivErro
             ELSE IF ~IsNum(principal) \/ ~IsNum(periodo) THEN MulErro
             ELSE LET taxa == DecDiv100(KwGet(kwargs, "taxa"))
                      juros == DecMul(DecMul(principal, taxa), periodo)
                  IN  Str("juros_simples_relatorio",
                          [principal |-> principal, taxa |-> taxa,
                           periodo |-> periodo, juros |-> juros,
                           montante |-> DecAdd(principal, juros)])
    ELSE Str("tipo_nao_suportado", NoVals)

\* lines 171-236: line 235 turns an Exception into a returned text
calculadora_financeira_geral(tipo, kwargs) ==
    Tratado(calculadora_corpo(tipo, kwargs), "calculo_financeiro_erro")

\* what the arXiv client does: it yields articles, yields none, raises an
\* Exception, or raises what is no Exception
ArxivOutcomes ==
    { Str("artigos", NoVals), Str("vazio", NoVals),
      RaisedMsg("RuntimeError", <<"a", "r", "x", "i", "v", " ", "d", "o", "w", "n">>), Raised("KeyboardInterrupt"),
      RaisedMsg("BaseExceptionGroup", <<"g", "r", "p", " ", "(", "1", " ", "s", "u", "b", "-", "e", "x", "c", "e", "p", "t", "i", "o", "n", ")">>) }

\* lines 238-275: the header and the 'none found' text echo the query, the
\* error text of line 275 holds str(e); line 274 catches Exception only
consulta_arxiv_melhorada(query, outcome) ==
    IF Caught(outcome) THEN Txt("arxiv_erro", outcome.text)
    ELSE IF outcome.kind = "raise" THEN outcome
    ELSE IF outcome.tag = "artigos" THEN Txt("arxiv_resultados", query)
    ELSE Txt("arxiv_nenhum", query)

-----------------------------------------------------------------------------
(* chat: quality gate, intent rules and handlers                           *)

MinResultLen == 20

Denylist == { <<"e", "r", "r", "o", "r">>, <<"e", "r", "r", "o">>, <<"f", "a", "i", "l", "e", "d">>, <<"n", "o", "n", "e">> }

\* QualityGate with the denylist compared case-sensitively
QualityGate_caseSensitive(result) ==
    /\ result # <<>>
    /\ Len(result) > MinResultLen
    /\ ~\E erro \in Denylist : Contains(erro, result)

\* the test of line 452 on result = str(response).strip()
QualityGate(result) ==
    /\ result # <<>>
    /\ Len(result) > MinResultLen
    /\ ~\E erro \in Denylist : Contains(erro, Lower(result))

TaxTerms == { <<"i", "m", "p", "o", "s", "t", "o", " ", "d", "e", " ", "r", "e", "n", "d", "a">>, <<"c", "a", "l", "c", "u", "l", "a", "r", " ", "i", "r">>, <<"i", "r", " ", "d", "e">> }

PercentTerms == { <<"%", " ", "d", "e">>, <<"p", "o", "r", "c", "e", "n", "t">>, <<"p", "e", "r", "c", "e", "n", "t", "u", "a", "l", " ", "d", "e">> }

CompoundTerms == { <<"j", "u", "r", "o", "s", " ", "c", "o", "m", "p", "o", "s", "t", "o", "s">>, <<"c", "o", "m", "p", "o", "u", "n", "d", " ", "i", "n", "t", "e", "r", "e", "s", "t">>, <<"m", "o", "n", "t", "a", "n", "t", "e">> }

ScientificTerms ==
    { <<"a", "r", "t", "i", "g", "o", "s", " ", "c", "i", "e", "n", "t", "í", "f", "i", "c", "o", "s">>, <<"p", "a", "p", "e", "r", "s">>, <<"a", "r", "x", "i", "v">>, <<"p", "e", "s", "q", "u", "i", "s", "a", " ", "a", "c", "a", "d", "ê", "m", "i", "c", "a">> }

ContainsAny(terms, s) == \E term \in terms : Contains(term, s)

RuleTax(msg) == ContainsAny(TaxTerms, Lower(msg))

RulePercentage(msg) == ContainsAny(PercentTerms, Lower(msg))

RuleCompound(msg) == ContainsAny(CompoundTerms, Lower(msg))

RuleScientific(msg) == ContainsAny(ScientificTerms, Lower(msg))

\* 'porcentagem' in message_lower and any(num in message for num in
\* re.findall(r'\d+', message))
RuleIncomplete(msg) ==
    /\ Contains(<<"p", "o", "r", "c", "e", "n", "t", "a", "g", "e", "m">>, Lower(msg))
    /\ \E i \in 1..Len(msg) : IsDigit(msg[i])

\* Classify with the percentage rule tried before the tax rule
Classify_percentFirst(msg) ==
    IF RulePercentage(msg) THEN "percentage"
    ELSE IF RuleTax(msg) THEN "tax"
    ELSE IF RuleCompound(msg) THEN "compound_interest"
    ELSE IF RuleScientific(msg) THEN "scientific_search"
    ELSE IF RuleIncomplete(msg) THEN "incomplete_percentage"
    ELSE "general"

\* the if/elif chain of lines 467-538
Classify(msg) ==
    IF RuleTax(msg) THEN "tax"
    ELSE IF RulePercentage(msg) THEN "percentage"
    ELSE IF RuleCompound(msg) THEN "compound_interest"
    ELSE IF RuleScientific(msg) THEN "scientific_search"
    ELSE IF RuleIncomplete(msg) THEN "incomplete_percentage"
    ELSE "general"

\* valores.get(k): the key is there and its value is not 0.0
Truthy(valores, k) == k \in DOMAIN valores /\ valores[k] # DecZero

\* an entry of the call log: the stage called and the text passed to it
\* (<<>> when the arguments are numbers)
Call(fn, arg) == [fn |-> fn, arg |-> arg]

\* what a handler did: the stages it called, in order, and what came out
Outcome(stages, result) == [calls |-> stages, result |-> result]

AnoPadrao == 2024

\* lines 468-473
TaxPresent(valores) == Truthy(valores, "principal")

HandleTax(msg) ==
    LET ex == extrair_valores_numericos(msg)
    IN  IF ex.kind = "raise" THEN Outcome(<<Call("extrair_valores_numericos", msg)>>, ex)
        ELSE IF TaxPresent(ex.vals)
        THEN Outcome(<<Call("extrair_valores_numericos", msg),
                       Call("imposto_renda_melhorado", <<>>)>>,
                     imposto_renda_melhorado(ex.vals["principal"], AnoPadrao))
        ELSE Outcome(<<Call("extrair_valores_numericos", msg)>>, Str("ir_prompt", NoVals))

\* lines 477-491
PercentagePresent(valores) ==
    Truthy(valores, "valor") /\ Truthy(valores, "percentual")

HandlePercentage(msg) ==
    LET ex == extrair_valores_numericos(msg)
    IN  IF ex.kind = "raise" THEN Outcome(<<Call("extrair_valores_numericos", msg)>>, ex)
        ELSE IF PercentagePresent(ex.vals)
        THEN Outcome(<<Call("extrair_valores_numericos", msg),
                       Call("calculadora_financeira_geral", <<>>)>>,
                     calculadora_financeira_geral(<<"p", "o", "r", "c", "e", "n", "t", "a", "g", "e", "m">>, ex.vals))
        ELSE Outcome(<<Call("extrair_valores_numericos", msg)>>,
                     Str("porcentagem_prompt", NoVals))

\* lines 495-507
CompoundPresent(valores) ==
    \A k \in {"principal", "taxa", "periodo"} : k \in DOMAIN valores

HandleCompound(msg) ==
    LET ex == extrair_valores_numericos(msg)
    IN  IF ex.kind = "raise" THEN Outcome(<<Call("extrair_valores_numericos", msg)>>, ex)
        ELSE IF CompoundPresent(ex.vals)
        THEN Outcome(<<Call("extrair_valores_numericos", msg),
                       Call("calculadora_financeira_geral", <<>>)>>,
                     calculadora_financeira_geral(<<"j", "u", "r", "o", "s", "_", "c", "o", "m", "p", "o", "s", "t", "o", "s">>, ex.vals))
        ELSE Outcome(<<Call("extrair_valores_numericos", msg)>>,
                     Str("juros_compostos_prompt", NoVals))

\* the letters of Latin-1: those with two cases and the five with one
Letters == {UpperChars[i] : i \in DOMAIN UpperChars}
               \cup {LowerChars[i] : i \in DOMAIN LowerChars}
               \cup {"ª", "µ", "º", "ß", "ÿ"}

\* the numerals of Latin-1 that are alphanumeric and not matched by \d
Numerals == {"²", "³", "¹", "¼", "½", "¾"}

\* the characters matched by \w
IsWordChar(c) == c \in Letters \/ c \in Numerals \/ IsDigit(c) \/ c = "_"

\* \b between positions i-1 and i
WordBoundary(s, i) ==
    LET before == i > 1 /\ i - 1 <= Len(s) /\ IsWordChar(s[i - 1])
        after == i >= 1 /\ i <= Len(s) /\ IsWordChar(s[i])
    IN  before # after

QueryStopWords ==
    { <<"b", "u", "s", "q", "u", "e">>, <<"p", "r", "o", "c", "u", "r", "e">>, <<"a", "r", "t", "i", "g", "o", "s">>, <<"c", "i", "e", "n", "t", "í", "f", "i", "c", "o", "s">>, <<"p", "a", "p", "e", "r", "s">>, <<"s", "o", "b", "r", "e">> }

\* the stop word the pattern of line 513 matches at position i (<<>>: none)
StopWordAt(s, i) ==
    LET ws == {w \in QueryStopWords :
                  /\ StartsAt(w, Lower(s), i)
                  /\ WordBoundary(s, i)
                  /\ WordBoundary(s, i + Len(w))}
    IN  IF ws = {} THEN <<>> ELSE CHOOSE w \in ws : TRUE

RECURSIVE RemoveStopWords(_, _)
\* re.sub(r'\b(busque|procure|artigos|científicos|papers|sobre)\b', '', s,
\* flags=re.IGNORECASE) from position i on
RemoveStopWords(s, i) ==
    IF i > Len(s) THEN <<>>
    ELSE IF StopWordAt(s, i) # <<>>
    THEN RemoveStopWords(s, i + Len(StopWordAt(s, i)))
    ELSE <<s[i]>> \o RemoveStopWords(s, i + 1)

\* lines 511-514
LimpaQuery(msg) == Strip(RemoveStopWords(msg, 1))

HandleScientific(msg, arxiv) ==
    Outcome(<<Call("consulta_arxiv_melhorada", LimpaQuery(msg))>>,
            consulta_arxiv_melhorada(LimpaQuery(msg), arxiv))

\* lines 518-535: with no number in the message the chain ends without a
\* return statement and chat returns None
HandleIncomplete(msg) ==
    IF PrimeiroNumero(msg) # <<>>
    THEN Outcome(<<>>, Txt("pergunta_incompleta",
                           NormalizaMonetario(PrimeiroNumero(msg))))
    ELSE Outcome(<<>>, NoneResult)

\* HandleGeneral without the except clause of line 553
HandleGeneral_propagates(msg, llm) ==
    IF llm.kind = "raise"
    THEN Outcome(<<Call("llm.complete", msg)>>, llm)
    ELSE Outcome(<<Call("llm.complete", msg)>>, Txt("llm", Strip(llm.text)))

ErroMax == 100

\* str(e)[:100]
Truncado(text) == SubSeq(text, 1, IF Len(text) < ErroMax THEN Len(text) ELSE ErroMax)

\* str.rstrip(): what .strip() does to the end of a text
RStrip(s) ==
    IF \A i \in 1..Len(s) : IsSpace(s[i]) THEN <<>>
    ELSE SubSeq(s, 1, CHOOSE j \in 1..Len(s) :
                         ~IsSpace(s[j]) /\ \A k \in (j+1)..Len(s) : IsSpace(s[k]))

\* lines 539-565: llm is what self.llm.complete does; line 553 catches
\* Exception only; the summary ends with str(e)[:100] and is stripped, which
\* takes the white space at the end of the error text
HandleGeneral(msg, llm) ==
    IF Caught(llm)
    THEN Outcome(<<Call("llm.complete", msg)>>,
                 Txt("capacidades", RStrip(Truncado(llm.text))))
    ELSE IF llm.kind = "raise"
    THEN Outcome(<<Call("llm.complete", msg)>>, llm)
    ELSE Outcome(<<Call("llm.complete", msg)>>, Txt("llm", Strip(llm.text)))

\* lines 467-565: the body of the branch b of the if/elif chain
Dispatch(b, msg, arxiv, llm) ==
    LET o == CASE b = "tax" -> HandleTax(msg)
               [] b = "percentage" -> HandlePercentage(msg)
               [] b = "compound_interest" -> HandleCompound(msg)
               [] b = "scientific_search" -> HandleScientific(msg, arxiv)
               [] b = "incomplete_percentage" -> HandleIncomplete(msg)
               [] OTHER -> HandleGeneral(msg, llm)
    IN  [branch |-> b, calls |-> o.calls, result |-> o.result]

ManualAnalysis(msg, arxiv, llm) == Dispatch(Classify(msg), msg, arxiv, llm)

\* OuterHandler without the except clause of line 567
OuterHandler_propagates(result) == result

\* lines 567-571: the outer handler of chat catches Exception only and
\* returns a text that holds str(e)
OuterHandler(result) ==
    IF Caught(result) THEN Txt("erro_critico", result.text) ELSE result

-----------------------------------------------------------------------------
(* Inputs                                                                  *)

MaxFragments == 2

MaxExtra == 1

Fragments ==
    { <<"i", "m", "p", "o", "s", "t", "o", " ", "d", "e", " ", "r", "e", "n", "d", "a", " ">>,
      <<"C", "a", "l", "c", "u", "l", "e", " ", "2", "0", "%", " ", "d", "e", " ">>,
      <<"R", "$", " ", "5", ".", "0", "0", "0">>,
      <<"p", "o", "r", "c", "e", "n", "t", "a", "g", "e", "m", " ">>,
      <<"j", "u", "r", "o", "s", " ", "c", "o", "m", "p", "o", "s", "t", "o", "s", " ">>,
      <<"b", "u", "s", "q", "u", "e", " ", "p", "a", "p", "e", "r", "s", " ", "s", "o", "b", "r", "e", " ", "I", "A">>,
      <<"0">>,
      <<".">>,
      <<"R", "$", " ", "1", ".", "0", "0", "0", " ", "a", " ", "1", "0", "%", " ", "p", "o", "r", " ", "2", " ", "a", "n", "o", "s">>,
      <<"O", " ", "q", "u", "e", " ", "é", " ", "b", "l", "o", "c", "k", "c", "h", "a", "i", "n", "?">> }

RECURSIVE Concats(_)
\* the texts made of at most n fragments
Concats(n) ==
    IF n = 0 THEN {<<>>}
    ELSE LET shorter == Concats(n - 1)
         IN  shorter \cup {s \o f : s \in shorter, f \in Fragments}

Messages == Concats(MaxFragments)

Pad(n) == [i \in 1..n |-> "x"]

\* lengths around the threshold of the quality gate
PadLens == {0} \cup ((MinResultLen - 1)..(MinResultLen + MaxExtra))

AgentTexts ==
    {Pad(n) : n \in PadLens}
        \cup {<<" ">> \o Pad(n) \o <<"\n">> : n \in PadLens \ {0}}
        \cup { <<"A", " ", "r", "e", "s", "p", "o", "s", "t", "a", " ", "f", "i", "n", "a", "l", " ", "é", " ", "4", "2", ",", " ", "c", "o", "m", " ", "c", "e", "r", "t", "e", "z", "a", ".">>,
               <<"E", "r", "r", "o", "r", ":", " ", "r", "a", "t", "e", " ", "l", "i", "m", "i", "t", " ", "e", "x", "c", "e", "e", "d", "e", "d", " ", "f", "o", "r", " ", "m", "o", "d", "e", "l">>,
               <<"O", " ", "f", "e", "r", "r", "o", " ", "é", " ", "u", "m", " ", "m", "e", "t", "a", "l", " ", "d", "e", " ", "t", "r", "a", "n", "s", "i", "ç", "ã", "o", ".">>,
               <<"T", "h", "e", " ", "r", "e", "q", "u", "e", "s", "t", " ", "F", "A", "I", "L", "E", "D", " ", "a", "f", "t", "e", "r", " ", "t", "h", "r", "e", "e", " ", "r", "e", "t", "r", "i", "e", "s">>,
               <<"R", "e", "s", "u", "l", "t", "a", "d", "o", " ", "d", "o", " ", "c", "á", "l", "c", "u", "l", "o", ":", " ", "N", "o", "n", "e", " ", "e", "n", "c", "o", "n", "t", "r", "a", "d", "o">> }

\* what the reasoning loop does with the message: a text or an exception
AgentOutcomes ==
    {Txt("agent", t) : t \in AgentTexts}
        \cup {RaisedMsg("AgentError", <<"a", "g", "e", "n", "t", " ", "d", "o", "w", "n">>), Raised("KeyboardInterrupt"),
              RaisedDe("Cancelled", <<"s", "t", "o", "p">>, FALSE)}

\* what self.llm.complete does with the prompt: a text or an exception
LlmOutcomes ==
    { Txt("llm", <<" ", " ", "B", "l", "o", "c", "k", "c", "h", "a", "i", "n", " ", "é", " ", "u", "m", " ", "r", "e", "g", "i", "s", "t", "r", "o", " ", "d", "i", "s", "t", "r", "i", "b", "u", "í", "d", "o", ".", " ">>),
      Txt("llm", <<>>),
      RaisedMsg("LlmError", Pad(ErroMax + 1)),
      RaisedMsg("LlmError", <<"t", "i", "m", "e", "o", "u", "t", " ">>),
      Raised("KeyboardInterrupt"),
      RaisedDe("Cancelled", <<"s", "t", "o", "p">>, FALSE) }

\* what the agent object has: query (looked for first), only chat, or neither
AgentApis == {"query", "chat", "none"}

-----------------------------------------------------------------------------
(* State machine: one request at a time                                    *)

Pending ==
    [kind |-> "pending", tag |-> "", text |-> <<>>, vals |-> NoVals,
     exception |-> FALSE]

\* no calculator has been called
NoCall == [fn |-> "none", tipo |-> <<>>, ano |-> 0, args |-> NoVals,
           result |-> Pending]

Init ==
    /\ pc = "idle"
    /\ agentApi \in AgentApis
    /\ message = <<>>
    /\ agentOut = Pending
    /\ gate = "pending"
    /\ branch = "none"
    /\ calls = <<>>
    /\ arxivOut = Pending
    /\ llmOut = Pending
    /\ response = Pending
    /\ extracted = Pending
    /\ calcPrev = NoCall
    /\ calcLast = NoCall

\* chat(message) is entered
Receive(m) ==
    /\ pc = "idle"
    /\ pc' = "TryAgentLoop"
    /\ message' = m
    /\ UNCHANGED <<agentApi, agentOut, gate, branch, calls, arxivOut, llmOut,
                   response, extracted>>
    /\ UNCHANGED calcVars

\* AgentCalls with chat tried as well after query
AgentCalls_both(api, msg) ==
    IF api = "query" THEN <<Call("agent.query", msg), Call("agent.chat", msg)>>
    ELSE IF api = "chat" THEN <<Call("agent.chat", msg)>>
    ELSE <<>>

\* lines 442-447: the reasoning loop is called through query, else through
\* chat, else nothing is called and AttributeError is raised
AgentCalls(api, msg) ==
    IF api = "query" THEN <<Call("agent.query", msg)>>
    ELSE IF api = "chat" THEN <<Call("agent.chat", msg)>>
    ELSE <<>>

\* lines 439-447
TryAgentLoop ==
    /\ pc = "TryAgentLoop"
    /\ calls' = calls \o AgentCalls(agentApi, message)
    /\ IF AgentCalls(agentApi, message) # <<>>
       THEN agentOut' \in AgentOutcomes
       ELSE agentOut' = RaisedMsg("AttributeError",
                                  <<"A", "g", "e", "n", "t", "e", " ", "n", "ã", "o", " ", "t", "e", "m", " ", "m", "é", "t", "o", "d", "o", " ", "q", "u", "e", "r", "y", " ", "o", "u", " ", "c", "h", "a", "t">>)
    /\ pc' = "ValidateAgentResult"
    /\ UNCHANGED <<agentApi, message, gate, branch, arxivOut, llmOut, response,
                   extracted>>
    /\ UNCHANGED calcVars

\* lines 449-459: the quality gate, and the handler of a failed loop, which
\* catches Exception only: any other exception goes to the outer handler
ValidateAgentResult ==
    /\ pc = "ValidateAgentResult"
    /\ IF Caught(agentOut)
       THEN /\ gate' = "failed"
            /\ pc' = "ClassifyIntent"
            /\ response' = response
       ELSE IF agentOut.kind = "raise"
       THEN /\ gate' = "interrupted"
            /\ pc' = "Done"
            /\ response' = OuterHandler(agentOut)
       ELSE IF QualityGate(Strip(agentOut.text))
       THEN /\ gate' = "accepted"
            /\ pc' = "Done"
            /\ response' = Txt("agent", Strip(agentOut.text))
       ELSE /\ gate' = "rejected"
            /\ pc' = "ClassifyIntent"
            /\ response' = response
    /\ UNCHANGED <<agentApi, message, agentOut, branch, calls, arxivOut, llmOut,
                   extracted>>
    /\ UNCHANGED calcVars

\* a collaborator's outcome is drawn only in the branch that calls it
ArxivDrawn(b) ==
    IF b = "scientific_search" THEN ArxivOutcomes ELSE {Pending}

LlmDrawn(b) == IF b = "general" THEN LlmOutcomes ELSE {Pending}

\* lines 461-571: classification, the handler of the branch, the outer handler
ClassifyIntent ==
    /\ pc = "ClassifyIntent"
    /\ \E b \in {Classify(message)} :
       \E arxiv \in ArxivDrawn(b), llm \in LlmDrawn(b) :
          \E r \in {Dispatch(b, message, arxiv, llm)} :
              /\ arxivOut' = arxiv
              /\ llmOut' = llm
              /\ branch' = r.branch
              /\ calls' = calls \o r.calls
              /\ response' = OuterHandler(r.result)
    /\ pc' = "Done"
    /\ agentOut' = Pending
    /\ UNCHANGED <<agentApi, message, gate, extracted>>
    /\ UNCHANGED calcVars

\* chat returns; the locals of the request are gone
Return ==
    /\ pc = "Done"
    /\ pc' = "idle"
    /\ message' = <<>>
    /\ agentOut' = Pending
    /\ gate' = "pending"
    /\ branch' = "none"
    /\ calls' = <<>>
    /\ arxivOut' = Pending
    /\ llmOut' = Pending
    /\ response' = Pending
    /\ UNCHANGED <<agentApi, extracted>>
    /\ UNCHANGED calcVars

\* extrair_valores_numericos(texto) called on its own
CallExtrair(texto) ==
    /\ pc = "idle"
    /\ pc' = "Extracted"
    /\ message' = texto
    /\ extracted' = extrair_valores_numericos(texto)
    /\ UNCHANGED <<agentApi, agentOut, gate, branch, calls, arxivOut, llmOut,
                   response>>
    /\ UNCHANGED calcVars

ReturnExtrair ==
    /\ pc = "Extracted"
    /\ pc' = "idle"
    /\ message' = <<>>
    /\ extracted' = Pending
    /\ UNCHANGED <<agentApi, agentOut, gate, branch, calls, arxivOut, llmOut,
                   response>>
    /\ UNCHANGED calcVars

Next ==
    \/ \E m \in Messages : Receive(m)
    \/ TryAgentLoop
    \/ ValidateAgentResult
    \/ ClassifyIntent
    \/ Return
    \/ \E texto \in Messages : CallExtrair(texto)
    \/ ReturnExtrair

Spec == Init /\ [][Next]_vars

-----------------------------------------------------------------------------
(* The calculators called on their own, as the tools of the agent are      *)

MaxIncomeSteps == 4

\* the finite upper bounds of a bracket table
Limites(faixas) == {faixas[i].limite : i \in {j \in DOMAIN faixas : ~faixas[j].inf}}

\* incomes: every bracket bound of both tables, the next cent above a bound
\* of the 2024 table and the next unit above a bound of the other table,
\* zero, one cent, negative incomes and a grid of round incomes
Incomes ==
    Limites(Faixas2024) \cup Limites(FaixasOutros)
    \cup {DecAdd(l, Dec(1, 2)) : l \in Limites(Faixas2024)}
    \cup {DecAdd(l, Dec(1, 0)) : l \in Limites(FaixasOutros)}
    \cup {Dec(1, 2), Dec(0 - 1, 2), Dec(0 - 1, 0)}
    \cup {Dec(25000 * k, 0) : k \in 0..MaxIncomeSteps}

\* ano: the year of the exact table and another year
Anos == {AnoTabela, AnoTabela - 1}

\* values a caller passes for each keyword argument
ArgValues ==
    [valor      |-> {Dec(0 - 1, 0), DecZero, Dec(10000, 0)},
     percentual |-> {Dec(0 - 1, 0), DecZero, Dec(15, 0)},
     principal  |-> {Dec(0 - 1000, 0), DecZero, Dec(10000, 0)},
     taxa       |-> {Dec(0 - 1, 0), DecZero, Dec(10, 0)},
     periodo    |-> {Dec(0 - 1, 0), DecZero, Dec(5, 0)}]

\* **kwargs: no keyword at all, or every key with one of its values
Kwargs(keys) ==
    {NoVals} \cup {kw \in [keys -> UNION {ArgValues[k] : k \in keys}] :
                      \A k \in keys : kw[k] \in ArgValues[k]}

\* tipo and the keyword arguments passed with it
CalcCalls ==
    ({<<"p", "o", "r", "c", "e", "n", "t", "a", "g", "e", "m">>, <<"P", "o", "r", "c", "e", "n", "t", "a", "g", "e", "m">>} \X Kwargs({"valor", "percentual"}))
    \cup ({<<"j", "u", "r", "o", "s", "_", "c", "o", "m", "p", "o", "s", "t", "o", "s">>, <<"j", "u", "r", "o", "s", "_", "s", "i", "m", "p", "l", "e", "s">>}
             \X Kwargs({"principal", "taxa", "periodo"}))
    \cup ({<<"d", "e", "s", "c", "o", "n", "t", "o">>} \X Kwargs({"valor"}))

\* calls with a fractional period, a period that overflows the float power,
\* a value that is not a number, and a tipo that is not a text
OtherCalls ==
    { <<<<"j", "u", "r", "o", "s", "_", "c", "o", "m", "p", "o", "s", "t", "o", "s">>,
        [principal |-> Dec(1000, 0), taxa |-> Dec(10, 0), periodo |-> p]>> :
          p \in {Dec(5, 1), Dec(25, 1), Dec(30, 0), Dec(99999, 0)} }
    \cup { <<<<"p", "o", "r", "c", "e", "n", "t", "a", "g", "e", "m">>,
            [valor |-> NaoNumerico, percentual |-> Dec(15, 0)]>>,
          <<<<"p", "o", "r", "c", "e", "n", "t", "a", "g", "e", "m">>,
            [valor |-> Dec(0 - 1, 0), percentual |-> NaoNumerico]>>,
          <<<<"j", "u", "r", "o", "s", "_", "c", "o", "m", "p", "o", "s", "t", "o", "s">>,
            [principal |-> DecZero, taxa |-> Dec(10, 0),
             periodo |-> NaoNumerico]>>,
          <<<<"j", "u", "r", "o", "s", "_", "s", "i", "m", "p", "l", "e", "s">>,
            [principal |-> NaoNumerico, taxa |-> Dec(10, 0),
             periodo |-> Dec(5, 0)]>>,
          <<TipoNone, NoVals>> }

\* each of the calls with what calculadora_financeira_geral returns to it,
\* worked out once
CalculadoraResults ==
    {<<c, calculadora_financeira_geral(c[1], c[2])>> :
        c \in CalcCalls \cup OtherCalls}

\* what the table holds for the call c
ResultOf(table, c) == (CHOOSE p \in table : p[1] = c)[2]

\* imposto_renda_melhorado(rendimento, ano) is called and returns
CallImposto(rendimento, ano) ==
    /\ pc = "idle"
    /\ calcPrev' = calcLast
    /\ calcLast' = [fn |-> "imposto_renda_melhorado", tipo |-> <<>>,
                    ano |-> ano, args |-> [rendimento |-> rendimento],
                    result |-> imposto_renda_melhorado(rendimento, ano)]
    /\ UNCHANGED chatVars

\* calculadora_financeira_geral(tipo, **kwargs) is called and returns
CallCalculadora(tipo, kwargs) ==
    /\ pc = "idle"
    /\ calcPrev' = calcLast
    /\ calcLast' = [fn |-> "calculadora_financeira_geral", tipo |-> tipo,
                    ano |-> 0, args |-> kwargs,
                    result |-> ResultOf(CalculadoraResults, <<tipo, kwargs>>)]
    /\ UNCHANGED chatVars

InitCalc == Init /\ agentApi = "query"

NextCalc ==
    \/ \E rendimento \in Incomes \cup {NaoNumerico}, ano \in Anos :
          CallImposto(rendimento, ano)
    \/ \E c \in CalcCalls \cup OtherCalls : CallCalculadora(c[1], c[2])

SpecCalc == InitCalc /\ [][NextCalc]_vars

-----------------------------------------------------------------------------
(* Properties                                                              *)

AgentFns == {"agent.query", "agent.chat"}

\* how many entries of the call log name a stage of fns
CountCalls(fns) == Cardinality({i \in DOMAIN calls : calls[i].fn \in fns})

\* the stages other than the reasoning loop that the request has called
StagesRun == {calls[i].fn : i \in DOMAIN calls} \ AgentFns

NoDigit(s) == \A i \in 1..Len(s) : ~IsDigit(s[i])

\* the request ended with the exception e of a collaborator leaving chat
Escaped(e) == e.kind = "raise" /\ response = e

\* C1 as stated: whatever the reasoning loop, the extractor, the calculators
\* and the knowledge completion do, chat ends by returning a text: no
\* exception leaves it and it never returns None.
ChatReturnsText == pc = "Done" => response.kind = "str"

\* C1: chat ends by returning a text, never None, whenever no collaborator
\* raises an exception outside the class Exception: every exception of the
\* class Exception raised inside chat comes out as a text, and the only
\* exception that leaves chat is one that is no Exception (KeyboardInterrupt,
\* SystemExit, GeneratorExit, CancelledError, BaseExceptionGroup or another
\* class that derives from BaseException only) raised by the reasoning loop,
\* by the arXiv search or by the knowledge completion.
ChatReturnsTextUnlessInterrupted ==
    pc = "Done" =>
        \/ response.kind = "str"
        \/ /\ response.kind = "raise"
           /\ ~response.exception
           /\ \/ gate = "interrupted" /\ Escaped(agentOut)
              \/ branch = "scientific_search" /\ Escaped(arxivOut)
              \/ branch = "general" /\ Escaped(llmOut)

\* an exception raised inside the manual analysis came out of chat as a text
ChatAbsorbsRaise ==
    /\ pc = "Done"
    /\ gate \in {"rejected", "failed"}
    /\ response.kind = "str"
    /\ response.tag = "erro_critico"
    /\ StartsAt(<<"c", "o", "u", "l", "d", " ", "n", "o", "t", " ", "c", "o", "n", "v", "e", "r", "t", " ", "s", "t", "r", "i", "n", "g", " ", "t", "o", " ", "f", "l", "o", "a", "t", ":", " ", "'">>, response.text, 1)

\* C2: the result of the reasoning loop is the final answer exactly when its
\* stripped text is non-empty, longer than 20 characters and holds none of
\* 'error', 'erro', 'failed', 'none' in any case; every other result is
\* rejected and the request goes on to intent classification.
GateExactly ==
    (pc \in {"ClassifyIntent", "Done"} /\ agentOut.kind = "str") =>
        LET result == Strip(agentOut.text)
            good == /\ result # <<>>
                    /\ Len(result) > 20
                    /\ \A w \in { <<"e", "r", "r", "o", "r">>, <<"e", "r", "r", "o">>, <<"f", "a", "i", "l", "e", "d">>, <<"n", "o", "n", "e">> } :
                          ~Contains(w, Lower(result))
        IN  /\ (gate = "accepted") <=> good
            /\ good => (pc = "Done" /\ response = Txt("agent", result))
            /\ ~good => (gate = "rejected" /\ pc = "ClassifyIntent"
                         /\ response = Pending)

\* a long answer that holds 'Error' was rejected and waits for classification
RejectsLongError ==
    /\ pc = "ClassifyIntent"
    /\ gate = "rejected"
    /\ agentOut.kind = "str"
    /\ Len(Strip(agentOut.text)) > 20
    /\ Contains(<<"E", "r", "r", "o", "r">>, agentOut.text)

\* the reasoning loop is tried first and once, with the raw message (one
\* call of query or chat when the agent has one of them, no call when it has
\* neither), before any other stage; an accepted result ends the request
\* with that result and no other stage runs; an agent with neither query nor
\* chat leads on to intent classification
LoopFirstAndOnce ==
    /\ pc \in {"ValidateAgentResult", "ClassifyIntent", "Done"} =>
          /\ CountCalls(AgentFns) = (IF agentApi = "none" THEN 0 ELSE 1)
          /\ agentApi # "none" =>
                (calls[1].fn \in AgentFns /\ calls[1].arg = message)
    /\ pc \in {"TryAgentLoop", "ValidateAgentResult"} => StagesRun = {}
    /\ gate = "accepted" =>
          /\ pc = "Done"
          /\ StagesRun = {}
          /\ branch = "none"
          /\ response = Txt("agent", Strip(agentOut.text))
    /\ (pc \in {"ClassifyIntent", "Done"} /\ agentApi = "none") => gate = "failed"
    /\ gate \in {"failed", "rejected"} => pc \in {"ClassifyIntent", "Done"}
    /\ (pc = "Done" /\ gate \in {"failed", "rejected"}) => branch # "none"

\* the reasoning loop raised and its handler has run
LoopRaised == agentOut.kind = "raise" /\ pc # "ValidateAgentResult"

\* C3 as stated: the reasoning loop is tried first and once, an accepted
\* result ends the request, and whenever the loop raises the failure is
\* absorbed and the request goes on to intent classification.
ReasoningLoopFirstOnce ==
    /\ LoopFirstAndOnce
    /\ LoopRaised => (pc = "ClassifyIntent" /\ gate = "failed")

\* C3: the reasoning loop is tried first and once, an accepted result ends
\* the request, and a loop that raises an exception of the class Exception
\* (or an agent with neither query nor chat) is absorbed and leads on to
\* intent classification; an exception outside that class (KeyboardInterrupt,
\* SystemExit, GeneratorExit, CancelledError, BaseExceptionGroup or another
\* class that derives from BaseException only) ends the request at once: it
\* leaves chat and no other stage runs.
ReasoningLoopFirstOnceUnlessInterrupted ==
    /\ LoopFirstAndOnce
    /\ (LoopRaised /\ Caught(agentOut)) =>
          (pc = "ClassifyIntent" /\ gate = "failed")
    /\ (LoopRaised /\ ~Caught(agentOut)) =>
          /\ pc = "Done"
          /\ gate = "interrupted"
          /\ response = agentOut
          /\ branch = "none"
          /\ StagesRun = {}
    /\ gate = "interrupted" => LoopRaised /\ ~Caught(agentOut)

\* the reasoning loop raised and the request went on to run a handler
FailureProceeds ==
    /\ pc = "Done"
    /\ gate = "failed"
    /\ agentApi # "none"
    /\ calls[1].fn \in AgentFns
    /\ branch # "none"
    /\ StagesRun # {}

\* the stages the handler of a branch may call
StagesOf(b) ==
    CASE b = "tax" -> {"extrair_valores_numericos", "imposto_renda_melhorado"}
      [] b = "percentage" ->
            {"extrair_valores_numericos", "calculadora_financeira_geral"}
      [] b = "compound_interest" ->
            {"extrair_valores_numericos", "calculadora_financeira_geral"}
      [] b = "scientific_search" -> {"consulta_arxiv_melhorada"}
      [] b = "incomplete_percentage" -> {}
      [] b = "general" -> {"llm.complete"}

\* the texts the handler of a branch may answer with
TagsOf(b) ==
    CASE b = "tax" -> {"ir_relatorio", "ir_negativo", "ir_erro", "ir_prompt"}
      [] b = "percentage" ->
            {"porcentagem_relatorio", "porcentagem_rejeitada",
             "calculo_financeiro_erro", "porcentagem_prompt"}
      [] b = "compound_interest" ->
            {"juros_compostos_relatorio", "juros_compostos_rejeitado",
             "juros_compostos_relatorio_ou_erro", "calculo_financeiro_erro",
             "juros_compostos_prompt"}
      [] b = "scientific_search" ->
            {"arxiv_resultados", "arxiv_nenhum", "arxiv_erro"}
      [] b = "incomplete_percentage" -> {"pergunta_incompleta"}
      [] b = "general" -> {"llm", "capacidades"}

\* C4: classification is an ordered chain in which the first matching rule
\* wins, tax > percentage > compound_interest > scientific_search >
\* incomplete_percentage > general: only the handler of the earliest matching
\* rule runs, and the general branch runs only when no rule 1 to 5 matches.
FirstMatchWins ==
    (pc = "Done" /\ gate \in {"rejected", "failed"}) =>
        LET t == RuleTax(message)
            p == RulePercentage(message)
            c == RuleCompound(message)
            s == RuleScientific(message)
            i == RuleIncomplete(message)
        IN  /\ (branch = "tax") <=> t
            /\ (branch = "percentage") <=> (~t /\ p)
            /\ (branch = "compound_interest") <=> (~t /\ ~p /\ c)
            /\ (branch = "scientific_search") <=> (~t /\ ~p /\ ~c /\ s)
            /\ (branch = "incomplete_percentage") <=> (~t /\ ~p /\ ~c /\ ~s /\ i)
            /\ (branch = "general") <=> (~t /\ ~p /\ ~c /\ ~s /\ ~i)
            /\ StagesRun \subseteq StagesOf(branch)
            /\ response.kind = "str" =>
                  response.tag \in TagsOf(branch) \cup {"erro_critico"}

\* a message with both 'imposto de renda' and '% de' was handled as tax
TaxBeatsPercentage ==
    /\ pc = "Done"
    /\ Contains(<<"i", "m", "p", "o", "s", "t", "o", " ", "d", "e", " ", "r", "e", "n", "d", "a">>, Lower(message))
    /\ Contains(<<"%", " ", "d", "e">>, Lower(message))
    /\ branch = "tax"
    /\ "calculadora_financeira_geral" \notin StagesRun

\* C5: after a rejected or failed reasoning loop, a message with the word
\* 'porcentagem' and a digit, no tax keyword and no value/percentage pair is
\* answered by the incomplete_percentage branch, with the prompt that asks
\* for the percentage and echoes the first number of the message.
IncompleteBranchPrompts ==
    ( /\ pc = "Done"
      /\ gate \in {"rejected", "failed"}
      /\ Contains(<<"p", "o", "r", "c", "e", "n", "t", "a", "g", "e", "m">>, Lower(message))
      /\ ~NoDigit(message)
      /\ ~RuleTax(message)
      /\ extrair_valores_numericos(message).kind = "ok"
      /\ ~PercentagePresent(extrair_valores_numericos(message).vals) ) =>
        /\ branch = "incomplete_percentage"
        /\ response.tag = "pergunta_incompleta"

\* C6: extrair_valores_numericos never raises, and for a text with no digit
\* (words and punctuation only) it returns the empty mapping.
ExtractorNeverRaises ==
    pc = "Extracted" =>
        /\ extracted.kind = "ok"
        /\ NoDigit(message) => DOMAIN extracted.vals = {}

\* C7: after a rejected or failed reasoning loop, 'Calcule 20% de R$ 5.000'
\* yields valor = 5000 and percentual = 20, the percentage calculator is
\* called with them and the answer reports 1,000.00.
EndToEndPercentage ==
    ( /\ pc = "Done"
      /\ gate \in {"rejected", "failed"}
      /\ message = <<"C", "a", "l", "c", "u", "l", "e", " ", "2", "0", "%", " ", "d", "e", " ", "R", "$", " ", "5", ".", "0", "0", "0">> ) =>
        /\ "calculadora_financeira_geral" \in StagesRun
        /\ response.tag = "porcentagem_relatorio"
        /\ response.vals.valor = Dec(5000, 0)
        /\ response.vals.percentual = Dec(20, 0)
        /\ response.vals.resultado = Dec(1000, 0)

\* C8: in the tax, percentage and compound-interest branches, a message that
\* does not hold the required fields (here: a message with no digit at all)
\* is answered with the guidance text of the branch, with no calculator call
\* and never with an error text.
MissingFieldsGetGuidance ==
    ( /\ pc = "Done"
      /\ gate \in {"rejected", "failed"}
      /\ branch \in {"tax", "percentage", "compound_interest"}
      /\ NoDigit(message) ) =>
        /\ branch = "tax" => response.tag = "ir_prompt"
        /\ branch = "percentage" => response.tag = "porcentagem_prompt"
        /\ branch = "compound_interest" => response.tag = "juros_compostos_prompt"
        /\ StagesRun = {"extrair_valores_numericos"}

\* C9: a field extracted with the value zero counts as present: a tax message
\* whose principal is 0 reaches the income-tax calculator (exempt report) and
\* a percentage message whose valor or percentual is 0 reaches the percentage
\* calculator (rejection message), neither gets the missing-fields prompt.
ZeroIsPresent ==
    ( /\ pc = "Done"
      /\ gate \in {"rejected", "failed"}
      /\ extrair_valores_numericos(message).kind = "ok" ) =>
        LET v == extrair_valores_numericos(message).vals
        IN  /\ ( /\ branch = "tax"
                 /\ "principal" \in DOMAIN v
                 /\ v["principal"] = DecZero ) =>
                   (response.tag = "ir_relatorio" /\ response.vals.isento)
            /\ ( /\ branch = "percentage"
                 /\ {"valor", "percentual"} \subseteq DOMAIN v
                 /\ (v["valor"] = DecZero \/ v["percentual"] = DecZero) ) =>
                   response.tag = "porcentagem_rejeitada"

\* the knowledge completion is called only in the general branch (after a
\* rejected or failed reasoning loop, no rule 1 to 5 matching), and once;
\* when it returns, its stripped text is the response
CompletionInGeneralOnce ==
    /\ CountCalls({"llm.complete"}) <= 1
    /\ llmOut # Pending => (pc = "Done" /\ branch = "general")
    /\ CountCalls({"llm.complete"}) = 1 =>
          /\ pc = "Done"
          /\ gate \in {"rejected", "failed"}
          /\ branch = "general"
          /\ ~RuleTax(message) /\ ~RulePercentage(message)
          /\ ~RuleCompound(message) /\ ~RuleScientific(message)
          /\ ~RuleIncomplete(message)
          /\ calls[Len(calls)] = Call("llm.complete", message)
    /\ (pc = "Done" /\ branch = "general") =>
          /\ CountCalls({"llm.complete"}) = 1
          /\ llmOut.kind \in {"str", "raise"}
          /\ llmOut.kind = "str" => response = Txt("llm", Strip(llmOut.text))

\* C10 as stated: the knowledge completion is called only in the general
\* branch and once; when it returns, its stripped text is the response; when
\* it raises, the response is the capability summary and nothing is
\* propagated.
CompletionOnlyInGeneral ==
    /\ CompletionInGeneralOnce
    /\ llmOut.kind = "raise" =>
          (response.kind = "str" /\ response.tag = "capacidades")

\* C10: the knowledge completion is called only in the general branch and
\* once; when it returns, its stripped text is the response; when it raises
\* an exception of the class Exception, the response is the capability
\* summary, which ends with the first 100 characters of the error text, and
\* nothing is propagated; an exception outside that class (KeyboardInterrupt,
\* SystemExit, GeneratorExit, CancelledError, BaseExceptionGroup or another
\* class that derives from BaseException only) leaves chat.
CompletionOnlyInGeneralUnlessInterrupted ==
    /\ CompletionInGeneralOnce
    /\ Caught(llmOut) =>
          response = Txt("capacidades", RStrip(Truncado(llmOut.text)))
    /\ (llmOut.kind = "raise" /\ ~Caught(llmOut)) => response = llmOut

\* the knowledge completion raised and the capability summary was returned
CompletionFailureSummarised ==
    /\ pc = "Done"
    /\ branch = "general"
    /\ Caught(llmOut)
    /\ Len(llmOut.text) > ErroMax
    /\ CountCalls({"llm.complete"}) = 1
    /\ response.kind = "str"
    /\ response.tag = "capacidades"
    /\ Len(response.text) = ErroMax


-----------------------------------------------------------------------------
(* Properties of the calculators called on their own                       *)

ImpostoFn == "imposto_renda_melhorado"

CalculadoraFn == "calculadora_financeira_geral"

\* the call is an income-tax call with an income >= 0
ImpostoValido(c) ==
    /\ c.fn = ImpostoFn
    /\ IsNum(c.args.rendimento)
    /\ DecLE(DecZero, c.args.rendimento)

\* max(0, x)
DecMax0(x) == IF DecLE(x, DecZero) THEN DecZero ELSE x

\* C11: for every income >= 0 and both bracket tables (the exact one for
\* 2024, the approximate one for any other year) the income-tax calculator
\* selects exactly one bracket, the first in ascending order whose upper
\* bound is >= income; the tax due is max(0, income * rate - deduction) of
\* that bracket and is never negative; the report has the effective-rate
\* line iff tax > 0 and the exempt marker iff tax = 0. With the default year
\* 2024, income 28559.70 gives tax 0 and the exempt marker, and income 50000
\* gives the 15% bracket and tax 2195.10.
ImpostoContract ==
    ImpostoValido(calcLast) =>
        LET r == calcLast.args.rendimento
            faixas == IF calcLast.ano = 2024 THEN Faixas2024 ELSE FaixasOutros
            bounds(i) == faixas[i].inf \/ DecLE(r, faixas[i].limite)
            first == {i \in DOMAIN faixas :
                         bounds(i) /\ \A j \in 1..(i - 1) : ~bounds(j)}
            v == calcLast.result.vals
        IN  /\ calcLast.result.kind = "str"
            /\ calcLast.result.tag = "ir_relatorio"
            /\ Cardinality(first) = 1
            /\ \A i \in first :
                  /\ v.faixa = faixas[i].nome
                  /\ v.aliquota = faixas[i].aliquota
                  /\ v.deducao = faixas[i].deducao
                  /\ v.imposto_devido =
                        DecMax0(DecSub(DecMul(r, faixas[i].aliquota),
                                       faixas[i].deducao))
            /\ DecLE(DecZero, v.imposto_devido)
            /\ v.aliquota_efetiva <=> ~DecLE(v.imposto_devido, DecZero)
            /\ v.isento <=> (v.imposto_devido = DecZero)
            /\ (calcLast.ano = 2024 /\ r = Dec(2855970, 2)) =>
                  (v.imposto_devido = DecZero /\ v.isento)
            /\ (calcLast.ano = 2024 /\ r = Dec(50000, 0)) =>
                  (v.faixa = "15%" /\ v.imposto_devido = Dec(219510, 2))

\* income 50000 of 2024 was reported in the 15% bracket with tax 2195.10 and
\* the effective-rate line
ImpostoQuinzePorCento ==
    /\ calcLast.fn = ImpostoFn
    /\ calcLast.ano = 2024
    /\ calcLast.args.rendimento = Dec(50000, 0)
    /\ calcLast.result.tag = "ir_relatorio"
    /\ calcLast.result.vals.faixa = "15%"
    /\ calcLast.result.vals.imposto_devido = Dec(219510, 2)
    /\ calcLast.result.vals.aliquota_efetiva
    /\ ~calcLast.result.vals.isento

\* the call is calculadora_financeira_geral with tipo t in any letter case
CalculadoraDe(c, t) == c.fn = CalculadoraFn /\ Lower(c.tipo) = t

\* C12: each calculator answers every call with a returned message and
\* never with an exception (a value that is not a number, a tipo that is not
\* a text and a power that overflows included); for numbers, the income-tax
\* calculator rejects every income < 0 and reports no tax value; the
\* percentage calculator rejects whenever valor <= 0 or percentual <= 0 (a
\* missing keyword counts as 0), so value 0 or percentage 0 is a rejection
\* and not a 0.00 result; the compound-interest calculator rejects whenever
\* principal, rate or period is <= 0; the simple-interest calculator never
\* rejects and reports interest = principal * (rate / 100) * period and
\* amount = principal + interest for every input, zero and negative ones
\* included.
CalculatorsValidate ==
    LET c == calcLast
        arg(k) == KwGet(c.args, k)
        numbers(keys) == \A k \in keys : IsNum(arg(k))
        nonPositive(k) == DecLE(arg(k), DecZero)
    IN  /\ c.fn # "none" => c.result.kind = "str"
        /\ (c.fn = ImpostoFn /\ IsNum(c.args.rendimento)
              /\ ~DecLE(DecZero, c.args.rendimento)) =>
              (c.result.tag = "ir_negativo" /\ c.result.vals = NoVals)
        /\ (CalculadoraDe(c, <<"p", "o", "r", "c", "e", "n", "t", "a", "g", "e", "m">>)
              /\ numbers({"valor", "percentual"})
              /\ (nonPositive("valor") \/ nonPositive("percentual"))) =>
              (c.result.tag = "porcentagem_rejeitada" /\ c.result.vals = NoVals)
        /\ (CalculadoraDe(c, <<"j", "u", "r", "o", "s", "_", "c", "o", "m", "p", "o", "s", "t", "o", "s">>)
              /\ numbers({"principal", "taxa", "periodo"})
              /\ (nonPositive("principal") \/ nonPositive("taxa")
                    \/ nonPositive("periodo"))) =>
              (c.result.tag = "juros_compostos_rejeitado"
                 /\ c.result.vals = NoVals)
        /\ (CalculadoraDe(c, <<"j", "u", "r", "o", "s", "_", "s", "i", "m", "p", "l", "e", "s">>)
              /\ numbers({"principal", "taxa", "periodo"})) =>
              LET juros == DecMul(DecMul(arg("principal"),
                                         DecDiv100(arg("taxa"))),
                                  arg("periodo"))
              IN  /\ c.result.tag = "juros_simples_relatorio"
                  /\ c.result.vals.juros = juros
                  /\ c.result.vals.montante = DecAdd(arg("principal"), juros)

\* the percentage of value 0 was rejected, and before it the simple interest
\* of a negative principal was reported
ZeroRejectedNegativeReported ==
    /\ CalculadoraDe(calcLast, <<"p", "o", "r", "c", "e", "n", "t", "a", "g", "e", "m">>)
    /\ "valor" \in DOMAIN calcLast.args
    /\ calcLast.args.valor = DecZero
    /\ calcLast.args.percentual = Dec(15, 0)
    /\ calcLast.result.tag = "porcentagem_rejeitada"
    /\ CalculadoraDe(calcPrev, <<"j", "u", "r", "o", "s", "_", "s", "i", "m", "p", "l", "e", "s">>)
    /\ "principal" \in DOMAIN calcPrev.args
    /\ calcPrev.args.principal = Dec(0 - 1000, 0)
    /\ calcPrev.args.taxa = Dec(10, 0)
    /\ calcPrev.args.periodo = Dec(5, 0)
    /\ calcPrev.result.tag = "juros_simples_relatorio"
    /\ calcPrev.result.vals.juros = Dec(0 - 500, 0)
    /\ calcPrev.result.vals.montante = Dec(0 - 1500, 0)

\* a <= b for two differences kept as whole part and fraction
WideLE(a, b) ==
    LET E == MaxOf(a.e, b.e)
    IN  \/ a.w < b.w
        \/ a.w = b.w /\ a.f * Pow10(E - a.e) <= b.f * Pow10(E - b.e)

\* C13: the tax due is monotonically non-decreasing in income and never
\* exceeds the income, for both bracket tables: of two incomes 0 <= a <= b
\* reported in the same year, tax(a) <= tax(b), also across a bracket bound
\* (56717.56 to 56717.57 in the 2024 table, 42000 to 42001 in the other one),
\* and 0 <= tax(a) <= a; so the reported net income is never negative and
\* does not fall when the gross income rises.
ImpostoMonotone ==
    /\ ImpostoValido(calcLast) =>
          LET v == calcLast.result.vals
          IN  /\ DecLE(DecZero, v.imposto_devido)
              /\ DecLE(v.imposto_devido, calcLast.args.rendimento)
              /\ v.renda_liquida.w >= 0
    /\ (/\ ImpostoValido(calcPrev)
        /\ ImpostoValido(calcLast)
        /\ calcPrev.ano = calcLast.ano
        /\ DecLE(calcPrev.args.rendimento, calcLast.args.rendimento)) =>
          /\ DecLE(calcPrev.result.vals.imposto_devido,
                   calcLast.result.vals.imposto_devido)
          /\ WideLE(calcPrev.result.vals.renda_liquida,
                    calcLast.result.vals.renda_liquida)
====
